---- MODULE Spec2Model ----
(***************************************************************************)
(* turbostate: the Machine/Store dispatch runtime (turbostate/src/lib.rs)  *)
(* as a state machine.  A Store holds one State and one Shared value, each *)
(* behind its own Mutex.  Callers (threads holding a Machine handle) run   *)
(* the direct-mode fire(event): lock State, lock Shared, run the Engine's  *)
(* transition function, drop both guards, then interpret the Flow          *)
(* (infer_result), which may commit a State (set_state) and re-fire.       *)
(***************************************************************************)
EXTENDS Integers, Sequences, FiniteSets, TLC

\* ---------------------------------------------------------------- bounds
MaxState == 1
MaxEvent == 2
MaxLog == 3

\* E::State, E::Event: numbered variants.
States == 0..MaxState
Events == 0..MaxEvent
\* E::Shared: a context carrying one sticky flag.
SharedVals == BOOLEAN
\* E::Error: two distinguishable errors.
Errors == {"e1", "e2"}
NoErr == "none"
\* "no State": what lastReq holds before the caller's first commit.
NoState == MaxState + 1
\* The longest Slide chain a call may run: the runtime imposes none, the
\* model needs one to keep the depth counter finite.
MaxDepth == MaxEvent

\* The threads that hold a handle of the one Store (Machine is Clone, the
\* Store sits behind an Arc).
Callers == {"t1", "t2"}
NoCaller == "nobody"

\* ------------------------------------------------------------------ Flow
Pass == [kind |-> "Pass", st |-> 0, ev |-> 0, err |-> NoErr]
Transition(s) == [kind |-> "Transition", st |-> s, ev |-> 0, err |-> NoErr]
Slide(s, e) == [kind |-> "Slide", st |-> s, ev |-> e, err |-> NoErr]
Failure(x) == [kind |-> "Failure", st |-> 0, ev |-> 0, err |-> x]
NoFlow == [kind |-> "None", st |-> 0, ev |-> 0, err |-> NoErr]

Flows ==
  {Pass} \cup {Transition(s) : s \in States}
         \cup {Slide(s, e) : s \in States, e \in Events}
         \cup {Failure(x) : x \in Errors}

\* Result<(), E::Error>
Ok == [tag |-> "Ok", err |-> NoErr]
Err(x) == [tag |-> "Err", err |-> x]
NoResult == [tag |-> "None", err |-> NoErr]

\* ----------------------------------------------------------------- state
VARIABLES
  engine,      \* which Engine the Machine is instantiated with
  state,       \* Store.state
  shared,      \* Store.shared
  stateLock,   \* holder of the State mutex, or NoCaller
  sharedLock,  \* holder of the Shared mutex, or NoCaller
  statePoison, \* the State mutex is poisoned
  sharedPoison,\* the Shared mutex is poisoned
  pc,          \* each caller's position inside fire
  ev,          \* the event the caller's current fire dispatches
  flow,        \* the Flow the caller's last invocation returned
  result,      \* what fire returned to the caller
  seen,        \* the State the caller's last invocation was given
  depth,       \* chained fires entered by the caller's current call
  calls,       \* invocations of next in the caller's current call
  writes,      \* set_state writes of the caller's current call
  lastReq,     \* the last State the caller asked set_state to commit
  overlapped,  \* another caller was inside fire during the caller's call
  start,       \* sequential runs: State, Shared and event when the call began
  inv,         \* sequential runs: what the last invocation found and left
  trace,       \* sequential runs: the invocations of the current call
  log,         \* sequential runs: the completed calls
  lstate,      \* InLoop.state
  lanes,       \* InLoop.lanes
  relays,      \* the ctl.relay calls of the last ein, in order
  lastOp,      \* the last barrier sequence issued: "open", "close" or "none"
  sig,         \* the last signal emitted
  progress     \* how far the signals since the loop was last at rest
               \* follow the sequence of the test

vars == <<engine, state, shared, stateLock, sharedLock, statePoison,
          sharedPoison, pc, ev, flow, result,
          seen, depth, calls, writes, lastReq, overlapped, start, inv,
          trace, log, lstate, lanes, relays, lastOp, sig, progress>>

\* The Machine and its callers; the legacy event loop.
machinevars == <<engine, state, shared, stateLock, sharedLock, statePoison,
                 sharedPoison, pc, ev, flow, result, seen, depth, calls,
                 writes, lastReq, overlapped, start, inv, trace, log>>

loopvars == <<lstate, lanes, relays, lastOp, sig, progress>>

\* What only the sequential specifications record.
obs == <<start, inv, trace, log>>

\* ---------------------------------------------------------------- Engine
\* Engine::next is supplied by the author of the machine.  An outcome of one
\* invocation is the Flow it returns and the value it leaves in Shared
\* (it receives &mut Shared).

\* Any implementation at all: every Flow, every in-place change of Shared.
AnyNext(st, e, sh) == [flow : Flows, shared : SharedVals]

\* The trait's provided body: Flow::Pass, nothing touched.
DefaultNext(st, e, sh) == {[flow |-> Pass, shared |-> sh]}

\* A pure implementor that uses every Flow.  Event 0 is absorbed but sets
\* the flag in Shared; event 1 fails while the flag is clear (setting it)
\* and otherwise moves to the next state; a larger event e commits the
\* next state and slides to e - 1.
SampleNext(st, e, sh) ==
  IF e = 0 THEN {[flow |-> Pass, shared |-> TRUE]}
  ELSE IF e = 1 THEN
    IF ~sh THEN {[flow |-> Failure(IF st = 0 THEN "e1" ELSE "e2"), shared |-> TRUE]}
    ELSE {[flow |-> Transition((st + 1) % (MaxState + 1)), shared |-> sh]}
  ELSE {[flow |-> Slide((st + 1) % (MaxState + 1), e - 1), shared |-> sh]}

\* The error-residual helper.  A fallible sub-operation returns a
\* Result<T, E>; its error type E is not the Engine's Error but converts
\* into it (E: Into<R>).
SubErrors == {"io", "parse"}
SubOk(v) == [tag |-> "Ok", val |-> v, err |-> NoErr]
SubErr(x) == [tag |-> "Err", val |-> 0, err |-> x]

\* err.into(): the author's conversion of the sub-operation's error.
into(x) == IF x = "io" THEN "e1" ELSE "e2"

\* A variant of from_residual: the error is dropped and the event absorbed.
from_residual_Swallow(residual) == Pass

\* Flow::from_residual(residual): Failure(err.into()) for an Err; for an Ok
\* it is unreachable!(), so no Flow comes back.
from_residual(residual) ==
  IF residual.tag = "Err" THEN Failure(into(residual.err)) ELSE NoFlow

\* A fallible sub-operation of the engine below: event 0 always fails with
\* "io", event 1 fails with "parse" while the flag in Shared is set, and
\* anything else yields the next State.
SubOp(st, e, sh) ==
  IF e = 0 THEN SubErr("io")
  ELSE IF e = 1 /\ sh THEN SubErr("parse")
  ELSE SubOk((st + 1) % (MaxState + 1))

\* An implementor written with the helper:
\*     let s = sub_op(state, event, shared)?;
\*     shared.flag = !shared.flag;
\*     Flow::Transition(s)
\* The ? returns from_residual(r) at once when r is an Err and otherwise
\* unwraps the value and goes on.
TryNext(st, e, sh) ==
  LET r == SubOp(st, e, sh) IN
    IF r.tag = "Err" THEN {[flow |-> from_residual(r), shared |-> sh]}
    ELSE {[flow |-> Transition(r.val), shared |-> ~sh]}

PureEngines == {"default", "sample"}

\* A variant of the call: the Machine hands next the State it handed the
\* previous invocation (a cached view), not the State now in the Store.
next_CachedState(eng, st, e, sh) ==
  IF eng = "any" THEN AnyNext(inv.st, e, sh)
  ELSE IF eng = "default" THEN DefaultNext(inv.st, e, sh)
  ELSE IF eng = "try" THEN TryNext(inv.st, e, sh)
  ELSE SampleNext(inv.st, e, sh)

\* E::next(&state, event, &mut shared), for the Engine the Machine is over.
next(eng, st, e, sh) ==
  IF eng = "any" THEN AnyNext(st, e, sh)
  ELSE IF eng = "default" THEN DefaultNext(st, e, sh)
  ELSE IF eng = "try" THEN TryNext(st, e, sh)
  ELSE SampleNext(st, e, sh)

\* ------------------------------------------------ InLoop (legacy sandbox)
\* sloop.rs: the entry lane's event loop, a Subscriber of the Laurent
\* input module.  Its Recognizer (flushed when a passage begins) only feeds
\* the log and is left out.
NumLanes == 7
Pulses == 3
Lines == 0..(NumLanes - 1)

Idle == [name |-> "Idle", hold |-> FALSE]
Entry == [name |-> "Entry", hold |-> FALSE]
Finalizing(h) == [name |-> "Finalizing", hold |-> h]
WaitRelease == [name |-> "WaitRelease", hold |-> FALSE]

\* [bool; 7]::default()
NoLanes == [i \in Lines |-> FALSE]

\* for _ in 0..3 { ctl.relay(r, true); ctl.relay(r, false); }
RECURSIVE Pulse(_, _)
Pulse(r, n) ==
  IF n = 0 THEN <<>> ELSE <<<<r, TRUE>>, <<r, FALSE>>>> \o Pulse(r, n - 1)

\* Variants of the match.  In the first the arm for the second radar's
\* release while finalizing is missing; in the second a high signal on
\* line 1 begins a passage in Entry as it does in Idle.
Arm_NoRelease(st, line, high) ==
  IF st = Idle /\ line = 1 /\ high THEN "begin"
  ELSE IF st = Entry /\ line = 3 /\ high THEN "exit"
  ELSE IF st = Finalizing(FALSE) /\ line = 3 /\ ~high THEN "finish"
  ELSE IF st = WaitRelease /\ line = 2 /\ ~high THEN "close"
  ELSE "ignore"

Arm_ReopenInEntry(st, line, high) ==
  IF st \in {Idle, Entry} /\ line = 1 /\ high THEN "begin"
  ELSE IF st = Entry /\ line = 3 /\ high THEN "exit"
  ELSE IF st = Finalizing(TRUE) /\ line = 2 /\ ~high THEN "release"
  ELSE IF st = Finalizing(FALSE) /\ line = 3 /\ ~high THEN "finish"
  ELSE IF st = WaitRelease /\ line = 2 /\ ~high THEN "close"
  ELSE "ignore"

\* The arm of the match on (&self.state, line, high) that is taken.
Arm(st, line, high) ==
  IF st = Idle /\ line = 1 /\ high THEN "begin"
  ELSE IF st = Entry /\ line = 3 /\ high THEN "exit"
  ELSE IF st = Finalizing(TRUE) /\ line = 2 /\ ~high THEN "release"
  ELSE IF st = Finalizing(FALSE) /\ line = 3 /\ ~high THEN "finish"
  ELSE IF st = WaitRelease /\ line = 2 /\ ~high THEN "close"
  ELSE "ignore"

\* InLoop::ein(ctl, line, high): the state, the lanes and the relay calls it
\* leaves.  In the "finish" arm the lanes are reset before lanes[2] is read.
ein(st, ln, line, high) ==
  LET l1 == [ln EXCEPT ![line] = high]
      a == Arm(st, line, high)
  IN  IF a = "begin" THEN
        [state |-> Entry, lanes |-> l1, relays |-> Pulse(1, Pulses)]
      ELSE IF a = "exit" THEN
        [state |-> Finalizing(l1[2]), lanes |-> l1, relays |-> <<>>]
      ELSE IF a = "release" THEN
        [state |-> Finalizing(FALSE), lanes |-> l1, relays |-> <<>>]
      ELSE IF a = "finish" THEN
        LET l2 == NoLanes IN
          IF l2[2]
          THEN [state |-> WaitRelease, lanes |-> l2, relays |-> <<>>]
          ELSE [state |-> Idle, lanes |-> l2, relays |-> Pulse(2, Pulses)]
      ELSE IF a = "close" THEN
        [state |-> Idle, lanes |-> l1, relays |-> Pulse(2, Pulses)]
      ELSE
        [state |-> st, lanes |-> l1, relays |-> <<>>]

\* tests/mod.rs, in_loop_perfect_conditions: the signals it emits.
Test ==
  <<<<1, TRUE>>, <<2, TRUE>>, <<1, FALSE>>, <<3, TRUE>>, <<2, FALSE>>,
    <<3, FALSE>>>>
NoSignal == <<0, FALSE>>
OffTest == Len(Test) + 1

\* InLoop::new(recognizer): State::default() and the lanes' default.
LoopInit ==
  /\ lstate = Idle
  /\ lanes = NoLanes
  /\ relays = <<>>
  /\ lastOp = "none"
  /\ sig = NoSignal
  /\ progress = 0

\* The caller is inside fire: it has not returned and has not panicked.
InFire(c) == pc[c] \notin {"idle", "done", "panicked"}

\* Machine::new_shared(initial, shared): any initial State and Shared.
InitStore ==
  /\ state \in States
  /\ shared \in SharedVals
  /\ stateLock = NoCaller
  /\ sharedLock = NoCaller
  /\ statePoison = FALSE
  /\ sharedPoison = FALSE
  /\ pc = [c \in Callers |-> "idle"]
  /\ ev = [c \in Callers |-> 0]
  /\ flow = [c \in Callers |-> NoFlow]
  /\ result = [c \in Callers |-> NoResult]
  /\ seen = [c \in Callers |-> 0]
  /\ depth = [c \in Callers |-> 0]
  /\ calls = [c \in Callers |-> 0]
  /\ writes = [c \in Callers |-> 0]
  /\ lastReq = [c \in Callers |-> NoState]
  /\ overlapped = [c \in Callers |-> FALSE]
  /\ start = [st |-> 0, sh |-> FALSE, ev |-> 0]
  /\ inv = [st |-> 0, sh |-> FALSE, out |-> FALSE]
  /\ trace = <<>>
  /\ log = <<>>
  /\ LoopInit

\* A Machine over a pure Engine.
Init == InitStore /\ engine \in PureEngines

\* A Machine over an arbitrary Engine.
InitAny == InitStore /\ engine = "any"

\* A Machine over the Engine written with the error-residual helper.
InitTry == InitStore /\ engine = "try"

\* ------------------------------------------------------------ infer_result
\* What infer_result does with a Flow: whether it calls set_state and with
\* what, whether it then calls fire again and with what, and what it returns
\* when it does not.
\* Variants of infer_result, each with one arm gone wrong.
\* Transition returns Ok(()) without calling set_state.
infer_result_TransitionNoCommit(f) ==
  IF f.kind = "Slide" THEN
    [commit |-> TRUE, st |-> f.st, refire |-> TRUE, ev |-> f.ev, ret |-> NoResult]
  ELSE IF f.kind = "Failure" THEN
    [commit |-> FALSE, st |-> 0, refire |-> FALSE, ev |-> 0, ret |-> Err(f.err)]
  ELSE
    [commit |-> FALSE, st |-> 0, refire |-> FALSE, ev |-> 0, ret |-> Ok]

\* Pass resets the machine to State 0 before returning Ok(()).
infer_result_PassResets(f) ==
  IF f.kind = "Pass" THEN
    [commit |-> TRUE, st |-> 0, refire |-> FALSE, ev |-> 0, ret |-> Ok]
  ELSE IF f.kind = "Transition" THEN
    [commit |-> TRUE, st |-> f.st, refire |-> FALSE, ev |-> 0, ret |-> Ok]
  ELSE IF f.kind = "Slide" THEN
    [commit |-> TRUE, st |-> f.st, refire |-> TRUE, ev |-> f.ev, ret |-> NoResult]
  ELSE
    [commit |-> FALSE, st |-> 0, refire |-> FALSE, ev |-> 0, ret |-> Err(f.err)]

\* Failure resets the machine to State 0 before returning the error.
infer_result_FailureResets(f) ==
  IF f.kind = "Pass" THEN
    [commit |-> FALSE, st |-> 0, refire |-> FALSE, ev |-> 0, ret |-> Ok]
  ELSE IF f.kind = "Transition" THEN
    [commit |-> TRUE, st |-> f.st, refire |-> FALSE, ev |-> 0, ret |-> Ok]
  ELSE IF f.kind = "Slide" THEN
    [commit |-> TRUE, st |-> f.st, refire |-> TRUE, ev |-> f.ev, ret |-> NoResult]
  ELSE
    [commit |-> TRUE, st |-> 0, refire |-> FALSE, ev |-> 0, ret |-> Err(f.err)]

\* Slide commits and returns Ok(()) without firing the chained event.
infer_result_SlideDropsEvent(f) ==
  IF f.kind = "Pass" THEN
    [commit |-> FALSE, st |-> 0, refire |-> FALSE, ev |-> 0, ret |-> Ok]
  ELSE IF f.kind = "Failure" THEN
    [commit |-> FALSE, st |-> 0, refire |-> FALSE, ev |-> 0, ret |-> Err(f.err)]
  ELSE
    [commit |-> TRUE, st |-> f.st, refire |-> FALSE, ev |-> 0, ret |-> Ok]

\* Slide commits and fires event 0, not the event the Flow carries.
infer_result_SlideWrongEvent(f) ==
  IF f.kind = "Pass" THEN
    [commit |-> FALSE, st |-> 0, refire |-> FALSE, ev |-> 0, ret |-> Ok]
  ELSE IF f.kind = "Transition" THEN
    [commit |-> TRUE, st |-> f.st, refire |-> FALSE, ev |-> 0, ret |-> Ok]
  ELSE IF f.kind = "Slide" THEN
    [commit |-> TRUE, st |-> f.st, refire |-> TRUE, ev |-> 0, ret |-> NoResult]
  ELSE
    [commit |-> FALSE, st |-> 0, refire |-> FALSE, ev |-> 0, ret |-> Err(f.err)]

\* Failure rolls the Store back to the State the call began in before the
\* error is returned.
infer_result_FailureRollsBack(f) ==
  IF f.kind = "Pass" THEN
    [commit |-> FALSE, st |-> 0, refire |-> FALSE, ev |-> 0, ret |-> Ok]
  ELSE IF f.kind = "Transition" THEN
    [commit |-> TRUE, st |-> f.st, refire |-> FALSE, ev |-> 0, ret |-> Ok]
  ELSE IF f.kind = "Slide" THEN
    [commit |-> TRUE, st |-> f.st, refire |-> TRUE, ev |-> f.ev, ret |-> NoResult]
  ELSE
    [commit |-> TRUE, st |-> start.st, refire |-> FALSE, ev |-> 0, ret |-> Err(f.err)]

infer_result(f) ==
  IF f.kind = "Pass" THEN
    [commit |-> FALSE, st |-> 0, refire |-> FALSE, ev |-> 0, ret |-> Ok]
  ELSE IF f.kind = "Transition" THEN
    [commit |-> TRUE, st |-> f.st, refire |-> FALSE, ev |-> 0, ret |-> Ok]
  ELSE IF f.kind = "Slide" THEN
    [commit |-> TRUE, st |-> f.st, refire |-> TRUE, ev |-> f.ev, ret |-> NoResult]
  ELSE
    [commit |-> FALSE, st |-> 0, refire |-> FALSE, ev |-> 0, ret |-> Err(f.err)]

\* Variants of the store: the guard is taken and nothing is stored; the
\* default State is stored instead of the argument.
set_state_value_Stale(new_state) == state

set_state_value_Default(new_state) == 0

\* *state = new_state
set_state_value(new_state) == new_state

\* ------------------------------------------------------------------- fire
\* A caller enters fire(e).
Enter(c, e) ==
  /\ ~InFire(c)
  /\ pc' = [pc EXCEPT ![c] = "lock_state"]
  /\ ev' = [ev EXCEPT ![c] = e]
  /\ flow' = [flow EXCEPT ![c] = NoFlow]
  /\ result' = [result EXCEPT ![c] = NoResult]
  /\ seen' = [seen EXCEPT ![c] = 0]
  /\ depth' = [depth EXCEPT ![c] = 0]
  /\ calls' = [calls EXCEPT ![c] = 0]
  /\ writes' = [writes EXCEPT ![c] = 0]
  /\ overlapped' = [d \in Callers |->
                      IF d = c THEN \E x \in Callers \ {c} : InFire(x)
                      ELSE overlapped[d] \/ InFire(d)]
  /\ UNCHANGED <<engine, loopvars, statePoison, sharedPoison, state, shared, stateLock, sharedLock, lastReq>>

Call(c) ==
  /\ \E e \in Events : Enter(c, e)
  /\ UNCHANGED obs

\* A variant of the acquisition: a poisoned mutex is taken all the same
\* (the guard is recovered from the PoisonError).
LockState_IgnorePoison(c) ==
  /\ pc[c] = "lock_state"
  /\ stateLock = NoCaller
  /\ stateLock' = c
  /\ pc' = [pc EXCEPT ![c] = "lock_shared"]
  /\ UNCHANGED <<engine, loopvars, statePoison, sharedPoison, state, shared,
                 sharedLock, ev, flow, result, seen, depth, calls, writes,
                 lastReq, overlapped, obs>>

\* let state = self.store.state.lock().unwrap();
\* lock() waits for the mutex; on a poisoned mutex it returns Err and the
\* unwrap panics (the guard inside the error is dropped at once).
LockState(c) ==
  /\ pc[c] = "lock_state"
  /\ stateLock = NoCaller
  /\ IF statePoison
     THEN /\ pc' = [pc EXCEPT ![c] = "panicked"]
          /\ UNCHANGED stateLock
     ELSE /\ pc' = [pc EXCEPT ![c] = "lock_shared"]
          /\ stateLock' = c
  /\ UNCHANGED <<engine, loopvars, statePoison, sharedPoison, state, shared,
                 sharedLock, ev, flow, result, seen, depth, calls, writes,
                 lastReq, overlapped, obs>>

\* let mut shared = self.store.shared.lock().unwrap();
\* On a poisoned mutex the unwrap panics while the State guard is alive:
\* the unwinding drops it, which releases and poisons the State mutex.
LockShared(c) ==
  /\ pc[c] = "lock_shared"
  /\ sharedLock = NoCaller
  /\ IF sharedPoison
     THEN /\ pc' = [pc EXCEPT ![c] = "panicked"]
          /\ stateLock' = NoCaller
          /\ statePoison' = TRUE
          /\ UNCHANGED sharedLock
     ELSE /\ pc' = [pc EXCEPT ![c] = "call_next"]
          /\ sharedLock' = c
          /\ UNCHANGED <<stateLock, statePoison>>
  /\ UNCHANGED <<engine, loopvars, sharedPoison, state, shared, ev, flow, result, seen,
                 depth, calls, writes, lastReq, overlapped, obs>>

\* E::next(&state, event, &mut shared) is entered: it is handed the State.
NextBegin(c) ==
  /\ pc[c] = "call_next"
  /\ seen' = [seen EXCEPT ![c] = state]
  /\ pc' = [pc EXCEPT ![c] = "in_next"]
  /\ UNCHANGED <<engine, loopvars, statePoison, sharedPoison, state, shared, stateLock, sharedLock, ev, flow,
                 result, depth, calls, writes, lastReq, overlapped, obs>>

\* E::next returns: a Flow, and Shared as it left it.
Invoke(c, out) ==
  /\ pc[c] = "in_next"
  /\ out \in next(engine, state, ev[c], shared)
  /\ out.flow.kind = "Slide" => depth[c] < MaxDepth
  /\ flow' = [flow EXCEPT ![c] = out.flow]
  /\ shared' = out.shared
  /\ calls' = [calls EXCEPT ![c] = @ + 1]
  /\ pc' = [pc EXCEPT ![c] = "drop_shared"]
  /\ UNCHANGED <<engine, loopvars, statePoison, sharedPoison, state, stateLock, sharedLock, ev, result, seen,
                 depth, writes, lastReq, overlapped>>

\* E::next panics.  What it had written to Shared by then stays (anything
\* between what it found and what it would have left); the unwinding drops
\* both guards, which releases and poisons both mutexes.
Panic(c) ==
  /\ pc[c] = "in_next"
  /\ shared' \in {shared} \cup {out.shared : out \in next(engine, state, ev[c], shared)}
  /\ stateLock' = NoCaller
  /\ sharedLock' = NoCaller
  /\ statePoison' = TRUE
  /\ sharedPoison' = TRUE
  /\ pc' = [pc EXCEPT ![c] = "panicked"]
  /\ UNCHANGED <<engine, loopvars, state, ev, flow, result, seen, depth, calls, writes,
                 lastReq, overlapped, obs>>

NextEnd(c) ==
  /\ \E out \in next(engine, state, ev[c], shared) : Invoke(c, out)
  /\ UNCHANGED obs

\* The block ends: the guards drop in reverse order of declaration.
DropShared(c) ==
  /\ pc[c] = "drop_shared"
  /\ sharedLock' = NoCaller
  /\ pc' = [pc EXCEPT ![c] = "drop_state"]
  /\ UNCHANGED <<engine, loopvars, statePoison, sharedPoison, state, shared, stateLock, ev, flow, result, seen,
                 depth, calls, writes, lastReq, overlapped, obs>>

\* A variant: the State guard outlives the block and is still held when
\* infer_result runs.
DropState_Leak(c) ==
  /\ pc[c] = "drop_state"
  /\ pc' = [pc EXCEPT ![c] = "infer"]
  /\ UNCHANGED <<engine, loopvars, statePoison, sharedPoison, state, shared, stateLock, sharedLock, ev, flow,
                 result, seen, depth, calls, writes, lastReq, overlapped, obs>>

DropState(c) ==
  /\ pc[c] = "drop_state"
  /\ stateLock' = NoCaller
  /\ pc' = [pc EXCEPT ![c] = "infer"]
  /\ UNCHANGED <<engine, loopvars, statePoison, sharedPoison, state, shared, sharedLock, ev, flow, result, seen,
                 depth, calls, writes, lastReq, overlapped, obs>>

\* A variant: when the Flow is a Failure, Shared is put back to what it
\* was when the call began.
Interpret_RestoresShared(c) ==
  /\ pc[c] = "infer"
  /\ LET r == infer_result(flow[c]) IN
       IF r.commit
       THEN /\ pc' = [pc EXCEPT ![c] = "set_lock"]
            /\ lastReq' = [lastReq EXCEPT ![c] = r.st]
            /\ UNCHANGED <<result, shared>>
       ELSE /\ pc' = [pc EXCEPT ![c] = "done"]
            /\ result' = [result EXCEPT ![c] = r.ret]
            /\ shared' = IF flow[c].kind = "Failure" THEN start.sh ELSE shared
            /\ UNCHANGED lastReq
  /\ UNCHANGED <<engine, loopvars, statePoison, sharedPoison, state,
                 stateLock, sharedLock, ev, flow, seen, depth, calls, writes,
                 overlapped>>

\* self.infer_result(flow): the match on the Flow.
Interpret(c) ==
  /\ pc[c] = "infer"
  /\ LET r == infer_result(flow[c]) IN
       IF r.commit
       THEN /\ pc' = [pc EXCEPT ![c] = "set_lock"]
            /\ lastReq' = [lastReq EXCEPT ![c] = r.st]
            /\ UNCHANGED result
       ELSE /\ pc' = [pc EXCEPT ![c] = "done"]
            /\ result' = [result EXCEPT ![c] = r.ret]
            /\ UNCHANGED lastReq
  /\ UNCHANGED <<engine, loopvars, statePoison, sharedPoison, state, shared, stateLock, sharedLock, ev, flow, seen,
                 depth, calls, writes, overlapped>>

Infer(c) ==
  /\ Interpret(c)
  /\ UNCHANGED obs

\* Variants of set_state's locking.  The first takes the Shared lock before
\* the State lock; the second stores without taking any lock.
SetLock_SharedFirst(c) ==
  /\ pc[c] = "set_lock"
  /\ IF sharedLock # c
     THEN /\ sharedLock = NoCaller
          /\ sharedLock' = c
          /\ UNCHANGED <<stateLock, pc>>
     ELSE /\ stateLock = NoCaller
          /\ stateLock' = c
          /\ pc' = [pc EXCEPT ![c] = "set_write"]
          /\ UNCHANGED sharedLock
  /\ UNCHANGED <<engine, loopvars, statePoison, sharedPoison, state, shared, ev, flow, result, seen, depth, calls,
                 writes, lastReq, overlapped, obs>>

SetLock_NoLock(c) ==
  /\ pc[c] = "set_lock"
  /\ pc' = [pc EXCEPT ![c] = "set_write"]
  /\ UNCHANGED <<engine, loopvars, statePoison, sharedPoison, state, shared, stateLock, sharedLock, ev, flow,
                 result, seen, depth, calls, writes, lastReq, overlapped, obs>>

\* set_state: let mut state = self.store.state.lock().unwrap();
SetLock(c) ==
  /\ pc[c] = "set_lock"
  /\ stateLock = NoCaller
  /\ IF statePoison
     THEN /\ pc' = [pc EXCEPT ![c] = "panicked"]
          /\ UNCHANGED stateLock
     ELSE /\ pc' = [pc EXCEPT ![c] = "set_write"]
          /\ stateLock' = c
  /\ UNCHANGED <<engine, loopvars, statePoison, sharedPoison, state, shared, sharedLock, ev, flow, result, seen,
                 depth, calls, writes, lastReq, overlapped, obs>>

\* set_state: *state = new_state;
SetWrite(c) ==
  /\ pc[c] = "set_write"
  /\ state' = set_state_value(infer_result(flow[c]).st)
  /\ writes' = [writes EXCEPT ![c] = @ + 1]
  /\ pc' = [pc EXCEPT ![c] = "set_drop"]
  /\ UNCHANGED <<engine, loopvars, statePoison, sharedPoison, shared, stateLock, sharedLock, ev, flow, result, seen,
                 depth, calls, lastReq, overlapped, obs>>

\* A variant: after a Slide the State guard is kept for the chained fire.
AfterSet_KeepsLock(c) ==
  /\ pc[c] = "set_drop"
  /\ LET r == infer_result(flow[c]) IN
       IF r.refire
       THEN /\ pc' = [pc EXCEPT ![c] = "lock_state"]
            /\ ev' = [ev EXCEPT ![c] = r.ev]
            /\ depth' = [depth EXCEPT ![c] = @ + 1]
            /\ UNCHANGED <<result, stateLock>>
       ELSE /\ pc' = [pc EXCEPT ![c] = "done"]
            /\ result' = [result EXCEPT ![c] = r.ret]
            /\ stateLock' = NoCaller
            /\ UNCHANGED <<ev, depth>>
  /\ UNCHANGED <<engine, loopvars, statePoison, sharedPoison, state, shared,
                 sharedLock, flow, seen, calls, writes, lastReq, overlapped>>

\* set_state returns (its guard drops); infer_result goes on: Ok(()) after
\* a Transition, self.fire(event) after a Slide.
AfterSet(c) ==
  /\ pc[c] = "set_drop"
  /\ stateLock' = NoCaller
  /\ LET r == infer_result(flow[c]) IN
       IF r.refire
       THEN /\ pc' = [pc EXCEPT ![c] = "lock_state"]
            /\ ev' = [ev EXCEPT ![c] = r.ev]
            /\ depth' = [depth EXCEPT ![c] = @ + 1]
            /\ UNCHANGED result
       ELSE /\ pc' = [pc EXCEPT ![c] = "done"]
            /\ result' = [result EXCEPT ![c] = r.ret]
            /\ UNCHANGED <<ev, depth>>
  /\ UNCHANGED <<engine, loopvars, statePoison, sharedPoison, state, shared, sharedLock, flow, seen, calls, writes,
                 lastReq, overlapped>>

SetDrop(c) ==
  /\ AfterSet(c)
  /\ UNCHANGED obs

Next ==
  \E c \in Callers :
    \/ Call(c)
    \/ LockState(c)
    \/ LockShared(c)
    \/ NextBegin(c)
    \/ NextEnd(c)
    \/ DropShared(c)
    \/ DropState(c)
    \/ Infer(c)
    \/ SetLock(c)
    \/ SetWrite(c)
    \/ SetDrop(c)

\* Concurrent callers over a pure Engine.
Spec == Init /\ [][Next]_vars

\* Concurrent callers over a pure Engine whose transition function may
\* panic.
NextPanic == Next \/ \E c \in Callers : Panic(c)

SpecPanic == Init /\ [][NextPanic]_vars

\* ------------------------------------------------------- one caller alone
\* The same steps taken by a single caller, with the run written down: where
\* the call began, what each invocation of next found and left, and (for a
\* pure Engine, whose runs can be compared) every completed call.
Solo == "t1"

Run(c) ==
  [st0 |-> start.st, sh0 |-> start.sh, ev |-> start.ev, tr |-> trace,
   res |-> result'[c], st1 |-> state', sh1 |-> shared']

Record(c) ==
  /\ log' = IF pc'[c] = "done" /\ engine # "any" THEN Append(log, Run(c)) ELSE log
  /\ UNCHANGED <<start, inv, trace>>

CallSeq(c) ==
  /\ Len(log) < MaxLog
  /\ \E e \in Events :
       /\ Enter(c, e)
       /\ start' = [st |-> state, sh |-> shared, ev |-> e]
  /\ trace' = <<>>
  /\ UNCHANGED <<inv, log>>

NextEndSeq(c) ==
  /\ \E out \in next(engine, state, ev[c], shared) :
       /\ Invoke(c, out)
       /\ inv' = [st |-> state, sh |-> shared, out |-> out.shared]
       /\ trace' = IF engine = "any" THEN trace
                   ELSE Append(trace, [st |-> state, ev |-> ev[c], sh |-> shared,
                                       flow |-> out.flow, out |-> out.shared])
  /\ UNCHANGED <<start, log>>

InferSeq(c) ==
  /\ Interpret(c)
  /\ Record(c)

SetDropSeq(c) ==
  /\ AfterSet(c)
  /\ Record(c)

NextSeq ==
  \E c \in {Solo} :
    \/ CallSeq(c)
    \/ LockState(c)
    \/ LockShared(c)
    \/ NextBegin(c)
    \/ NextEndSeq(c)
    \/ DropShared(c)
    \/ DropState(c)
    \/ InferSeq(c)
    \/ SetLock(c)
    \/ SetWrite(c)
    \/ SetDropSeq(c)

\* One caller over an arbitrary Engine.
SpecAny == InitAny /\ [][NextSeq]_vars

\* One caller over a pure Engine, every completed call logged.
SpecSeq == Init /\ [][NextSeq]_vars

\* One caller over the Engine written with the error-residual helper.
SpecTry == InitTry /\ [][NextSeq]_vars

\* ---------------------------------------------------------------- fairness
\* Every step of fire but the entry is the thread's own progress: a thread
\* that can take its next step eventually does (weak fairness).  A lock()
\* is a step that other threads can disable again and again; a thread
\* waiting in lock() wins a mutex that is released again and again (strong
\* fairness on the three acquisitions).
Step(c) ==
  \/ LockState(c) \/ LockShared(c) \/ NextBegin(c) \/ NextEnd(c)
  \/ DropShared(c) \/ DropState(c) \/ Infer(c) \/ SetLock(c)
  \/ SetWrite(c) \/ SetDrop(c)

Acquire(c) == LockState(c) \/ LockShared(c) \/ SetLock(c)

SpecLive ==
  Spec /\ \A c \in Callers : WF_vars(Step(c)) /\ SF_vars(Acquire(c))

\* ------------------------------------------------------ suspendable mode
\* With the "async" feature fire is an async fn and E::next(..).await may
\* suspend.  The two guards are locals of fire's future: they live across
\* the await.  The callers are tasks; on a single cooperative carrier
\* thread one task runs at a time, from a poll to its next suspension or
\* its end, and a task inside a blocking lock() keeps the thread.
OnCarrier(c) == InFire(c) /\ pc[c] # "awaiting"

CarrierFree(c) == \A d \in Callers \ {c} : ~OnCarrier(d)

\* E::next(&state, event, &mut shared).await is pending: the task yields.
Suspend(c) ==
  /\ pc[c] = "in_next"
  /\ pc' = [pc EXCEPT ![c] = "awaiting"]
  /\ UNCHANGED <<engine, loopvars, statePoison, sharedPoison, state, shared,
                 stateLock, sharedLock, ev, flow, result, seen, depth, calls,
                 writes, lastReq, overlapped, obs>>

\* The task is polled again and the transition function goes on.
Resume(c) ==
  /\ pc[c] = "awaiting"
  /\ pc' = [pc EXCEPT ![c] = "in_next"]
  /\ UNCHANGED <<engine, loopvars, statePoison, sharedPoison, state, shared,
                 stateLock, sharedLock, ev, flow, result, seen, depth, calls,
                 writes, lastReq, overlapped, obs>>

\* lock() on a std Mutex that a task of the same thread holds does not
\* return: it blocks the thread for good (no step) or it panics (this step).
\* A panic while the State guard is alive drops and poisons it.
Relock(c) ==
  /\ pc[c] \in {"lock_state", "lock_shared", "set_lock"}
  /\ (IF pc[c] = "lock_shared" THEN sharedLock ELSE stateLock)
       \notin {NoCaller, c}
  /\ pc' = [pc EXCEPT ![c] = "panicked"]
  /\ stateLock' = IF stateLock = c THEN NoCaller ELSE stateLock
  /\ statePoison' = (statePoison \/ stateLock = c)
  /\ UNCHANGED <<engine, loopvars, sharedPoison, state, shared, sharedLock,
                 ev, flow, result, seen, depth, calls, writes, lastReq,
                 overlapped, obs>>

\* What the carrier thread does next: it polls a task, or the task it is
\* running takes a step.
NextAsync ==
  \E c \in Callers :
    \/ CarrierFree(c) /\ Call(c)
    \/ CarrierFree(c) /\ LockState(c)
    \/ CarrierFree(c) /\ LockShared(c)
    \/ CarrierFree(c) /\ NextBegin(c)
    \/ CarrierFree(c) /\ Suspend(c)
    \/ CarrierFree(c) /\ Resume(c)
    \/ CarrierFree(c) /\ NextEnd(c)
    \/ CarrierFree(c) /\ DropShared(c)
    \/ CarrierFree(c) /\ DropState(c)
    \/ CarrierFree(c) /\ Infer(c)
    \/ CarrierFree(c) /\ SetLock(c)
    \/ CarrierFree(c) /\ SetWrite(c)
    \/ CarrierFree(c) /\ SetDrop(c)
    \/ CarrierFree(c) /\ Relock(c)

\* Tasks over a pure Engine on one carrier thread.
SpecAsync == Init /\ [][NextAsync]_vars

\* A step of task c other than entering fire or panicking.
StepAsync(c) ==
  /\ CarrierFree(c)
  /\ (Step(c) \/ Suspend(c) \/ Resume(c))

\* ------------------------------------------------------- the event loop
\* The barrier sequence a list of relay calls amounts to.
Issued(rs) ==
  IF rs = Pulse(1, Pulses) THEN "open"
  ELSE IF rs = Pulse(2, Pulses) THEN "close"
  ELSE "none"

AtRest(st, ln) == st = Idle /\ ln = NoLanes

\* Laurent::emit_ein(line, high): self.sub.ein(&mut self.ctl, line, high).
emit_ein(line, high) ==
  LET r == ein(lstate, lanes, line, high)
      p == IF progress = Len(Test) THEN 0 ELSE progress
  IN  /\ lstate' = r.state
      /\ lanes' = r.lanes
      /\ relays' = r.relays
      /\ lastOp' = IF Issued(r.relays) = "none" THEN lastOp ELSE Issued(r.relays)
      /\ sig' = <<line, high>>
      /\ progress' = IF p < Len(Test) /\ <<line, high>> = Test[p + 1] THEN p + 1
                     ELSE IF AtRest(r.state, r.lanes) THEN 0
                     ELSE OffTest
      /\ UNCHANGED machinevars

Emit == \E line \in Lines : \E high \in BOOLEAN : emit_ein(line, high)

\* A Machine left alone.
InitLoop == InitStore /\ engine = "default" /\ state = 0 /\ shared = FALSE

\* The loop under every sequence of signals on its seven lines.
SpecLoop == InitLoop /\ [][Emit]_vars

\* ================================================================= claims
\* ---------------------------------------------------------------- C1
\* C1: with a single caller, a fire whose transition function returned
\* Transition(s) returns Ok(()) and leaves the Store's State equal to s,
\* whatever the State was before and whatever the event.
C1_TransitionCommits ==
  \A c \in Callers :
    (pc[c] = "done" /\ flow[c].kind = "Transition")
      => (result[c] = Ok /\ state = flow[c].st)

\* A call that went straight to Transition(s), s not the State it began in.
C1_Witness ==
  /\ pc[Solo] = "done"
  /\ depth[Solo] = 0
  /\ flow[Solo].kind = "Transition"
  /\ flow[Solo].st # start.st
  /\ state = flow[Solo].st
  /\ result[Solo] = Ok

\* ---------------------------------------------------------------- C2
\* C2 as stated: a dispatch whose transition function returned Pass leaves
\* State and Shared as the invocation found them and fire returns Ok(()).
C2_PassLeavesShared ==
  (pc[Solo] = "done" /\ flow[Solo].kind = "Pass")
    => (state = inv.st /\ shared = inv.sh /\ result[Solo] = Ok)

\* C2 amended: a dispatch whose transition function returned Pass leaves
\* State as the invocation found it and fire returns Ok(()); Shared is
\* exactly what the transition function left in it (the runtime adds no
\* change of its own, and undoes none).
C2_PassFrame ==
  (pc[Solo] = "done" /\ flow[Solo].kind = "Pass")
    => (state = inv.st /\ shared = inv.out /\ result[Solo] = Ok)

\* A Pass whose transition function changed Shared in place.
C2_Witness ==
  /\ pc[Solo] = "done"
  /\ depth[Solo] = 0
  /\ flow[Solo].kind = "Pass"
  /\ result[Solo] = Ok
  /\ state = start.st
  /\ start.st = MaxState
  /\ shared # start.sh

\* ---------------------------------------------------------------- C3
\* C3: a dispatch whose transition function returned Failure(err) writes no
\* State (State is what the invocation was given, and the call has written
\* only for its earlier Slides), the event is not dispatched again (one
\* invocation per event of the chain), and fire returns Err(err).
C3_FailureSurfaced ==
  \A c \in Callers :
    (pc[c] = "done" /\ flow[c].kind = "Failure")
      => /\ result[c] = Err(flow[c].err)
         /\ state = seen[c]
         /\ writes[c] = depth[c]
         /\ calls[c] = depth[c] + 1

\* A call that failed at once with the second error, from the last State.
C3_Witness ==
  /\ pc[Solo] = "done"
  /\ flow[Solo] = Failure("e2")
  /\ result[Solo] = Err("e2")
  /\ calls[Solo] = 1
  /\ writes[Solo] = 0
  /\ state = MaxState
  /\ start.st = MaxState

\* ---------------------------------------------------------------- C4
\* The first invocation of a logged run.
First(a) == a.tr[1]

\* Run b is a fire of the event run a slid to, begun in the State that a's
\* first step committed and the Shared that step left.
Continues(a, b) ==
  /\ First(a).flow.kind = "Slide"
  /\ b.st0 = First(a).flow.st
  /\ b.sh0 = First(a).out
  /\ b.ev = First(a).flow.ev

\* C4: with one caller, a fire whose transition function returned
\* Slide(s, e2) ends as committing s and then calling fire(e2) does: the
\* same final State and Shared, the same result, and after the first
\* invocation the same invocations of the transition function in the same
\* order, each given the same State, event and Shared.
C4_SlideIsCommitThenFire ==
  \A i \in 1..Len(log) : \A j \in 1..Len(log) :
    Continues(log[i], log[j])
      => /\ log[i].res = log[j].res
         /\ log[i].st1 = log[j].st1
         /\ log[i].sh1 = log[j].sh1
         /\ Tail(log[i].tr) = log[j].tr

\* A Slide whose commit changed the State, and a separate fire of the
\* chained event from that State.
C4_Witness ==
  \E i \in 1..Len(log) : \E j \in 1..Len(log) :
    /\ Continues(log[i], log[j])
    /\ First(log[i]).flow.st # log[i].st0
    /\ Len(log[j].tr) >= 1

\* ---------------------------------------------------------------- C5
Quiescent == \A c \in Callers : ~InFire(c)

\* C5: once the concurrent fire calls have all returned, and any caller has
\* committed at all, the State is the last State one of the callers asked
\* set_state to commit: never a value no call committed.
C5_LastCommitWins ==
  (Quiescent /\ \E c \in Callers : lastReq[c] # NoState)
    => state \in {lastReq[c] : c \in Callers}

\* Two overlapping calls that both committed, different States, the State
\* being the one t1 committed.
C5_Witness ==
  /\ Quiescent
  /\ \A c \in Callers : overlapped[c] /\ writes[c] >= 1
  /\ lastReq["t1"] # lastReq["t2"]
  /\ state = lastReq["t1"]

\* ---------------------------------------------------------------- C10
SameStateAndEvent(a, b) == a.st0 = b.st0 /\ a.ev = b.ev

\* C10 as stated: two runs that begin in the same State and fire the same
\* event return the same result and end in the same State.
C10_SameStateSameOutcome ==
  \A i \in 1..Len(log) : \A j \in 1..Len(log) :
    SameStateAndEvent(log[i], log[j])
      => (log[i].res = log[j].res /\ log[i].st1 = log[j].st1)

\* C10 amended: for a pure transition function, two runs that begin in the
\* same State and the same Shared and fire the same event return the same
\* result and end in the same State.
C10_Deterministic ==
  \A i \in 1..Len(log) : \A j \in 1..Len(log) :
    (SameStateAndEvent(log[i], log[j]) /\ log[i].sh0 = log[j].sh0)
      => (log[i].res = log[j].res /\ log[i].st1 = log[j].st1)

\* The sample engine fired twice with the same event from the same State and
\* Shared, committing a new State both times.
C10_Witness ==
  /\ engine = "sample"
  /\ \E i \in 1..Len(log) : \E j \in 1..Len(log) :
       /\ i < j
       /\ SameStateAndEvent(log[i], log[j])
       /\ log[i].sh0 = log[j].sh0
       /\ log[i].st1 # log[i].st0

\* ---------------------------------------------------------------- C6
\* C6: fire takes the State lock before the Shared lock (Shared is held only
\* by the holder of State), the commit takes the State lock alone, and no
\* state is a deadlock: while any call is unfinished, some unfinished call
\* can take its next step.
C6_LockOrderNoDeadlock ==
  /\ \A c \in Callers :
       /\ sharedLock = c => stateLock = c
       /\ pc[c] = "lock_shared" => stateLock = c
       /\ pc[c] \in {"set_lock", "set_write", "set_drop"} => sharedLock # c
       /\ pc[c] \in {"set_write", "set_drop"} => stateLock = c
  /\ (\E c \in Callers : InFire(c))
       => \E c \in Callers : InFire(c) /\ ENABLED Step(c)

\* t2 holds both locks and is about to invoke, t1 waits to commit.
C6_Witness ==
  /\ pc["t1"] = "set_lock"
  /\ pc["t2"] = "call_next"
  /\ stateLock = "t2"
  /\ sharedLock = "t2"
  /\ ~ENABLED Step("t1")

\* ---------------------------------------------------------------- C7
Invoking(c) == pc[c] \in {"call_next", "in_next"}

\* C7: a caller is inside the transition function only while it holds both
\* the State lock and the Shared lock; at most one caller is inside it at a
\* time; and while it runs, State is still the State it was handed.
C7_NextUnderBothLocks ==
  /\ \A c \in Callers : Invoking(c) => (stateLock = c /\ sharedLock = c)
  /\ Cardinality({c \in Callers : Invoking(c)}) <= 1
  /\ \A c \in Callers : pc[c] = "in_next" => state = seen[c]

\* t1 is inside the transition function while t2 waits to commit a State
\* other than the one t1 was handed.
C7_Witness ==
  /\ pc["t1"] = "in_next"
  /\ pc["t2"] = "set_lock"
  /\ flow["t2"].st # seen["t1"]

\* ---------------------------------------------------------------- C8
\* C8: between the end of the invocation and the commit a caller holds
\* neither lock, so another call may compute and commit in between.
C8_UnlockedBetweenComputeAndCommit ==
  \A c \in Callers :
    pc[c] \in {"infer", "set_lock"} => (stateLock # c /\ sharedLock # c)

\* Both calls computed Transition against the same State; t1 has committed
\* and returned, and t2 now holds the State lock to store the Flow it
\* computed against the State t1 has since replaced.
C8_Witness ==
  /\ pc["t1"] = "done"
  /\ pc["t2"] = "set_write"
  /\ flow["t1"].kind = "Transition"
  /\ flow["t2"].kind = "Transition"
  /\ depth["t1"] = 0
  /\ depth["t2"] = 0
  /\ overlapped["t1"]
  /\ overlapped["t2"]
  /\ seen["t1"] = seen["t2"]
  /\ state = flow["t1"].st
  /\ state # seen["t2"]

\* ---------------------------------------------------------------- C9
Waiting(c) == pc[c] \in {"lock_state", "lock_shared", "call_next", "in_next"}

\* What holds of a call that has returned, and of a chained fire on its way.
C9_Resolved ==
  \A c \in Callers :
    /\ pc[c] = "done"
         => /\ flow[c].kind \in {"Pass", "Transition", "Failure"}
            /\ result[c] = IF flow[c].kind = "Failure"
                           THEN Err(flow[c].err) ELSE Ok
            /\ calls[c] = depth[c] + 1
    /\ (Waiting(c) /\ depth[c] > 0)
         => (flow[c].kind = "Slide" /\ ev[c] = flow[c].ev)

ChainOf(e, tr, complete) ==
  /\ Len(tr) >= 1 => tr[1].ev = e
  /\ \A k \in 2..Len(tr) :
       /\ tr[k - 1].flow.kind = "Slide"
       /\ tr[k].ev = tr[k - 1].flow.ev
       /\ tr[k].st = tr[k - 1].flow.st
  /\ complete => (Len(tr) >= 1 /\ tr[Len(tr)].flow.kind # "Slide")

\* C11: one sequential caller.  The calls are logged in the order their
\* events were fed; the invocations of each call are exactly the fed event
\* followed by its Slide chain, one invocation per dispatched event, all of
\* them before the next fed event is taken (the call in progress is the
\* only one with invocations outside the log, and they are its own chain).
C11_OncePerEventInFeedOrder ==
  /\ \A i \in 1..Len(log) : ChainOf(log[i].ev, log[i].tr, TRUE)
  /\ InFire(Solo) =>
       /\ ChainOf(start.ev, trace, FALSE)
       /\ Len(trace) = calls[Solo]
       /\ Len(trace) \in {depth[Solo], depth[Solo] + 1}
  /\ pc[Solo] = "done" => Len(log) >= 1 /\ log[Len(log)].ev = start.ev
                                        /\ log[Len(log)].tr = trace
                                        /\ Len(trace) = depth[Solo] + 1

\* Two fed events, the first of which slid: its chain is logged whole before
\* the second call's single invocation.
C11_Witness ==
  /\ Len(log) = 2
  /\ Len(log[1].tr) >= 2
  /\ log[1].tr[2].ev # log[1].ev
  /\ log[2].ev # log[1].ev
  /\ Len(log[2].tr) = 1

\* ---------------------------------------------------------------- C12
\* What one invocation t of the helper-written function did, against what
\* its sub-operation yielded: on Err(x) it returned Failure(into(x)) and
\* nothing after the ? ran (Shared is untouched); on Ok the rest ran and no
\* Failure came out.
Propagated(t) ==
  LET r == SubOp(t.st, t.ev, t.sh) IN
    IF r.tag = "Err"
    THEN t.flow = Failure(into(r.err)) /\ t.out = t.sh
    ELSE t.flow.kind # "Failure" /\ t.out # t.sh

\* What fire did with a call whose sub-operation failed: what it does with
\* an explicit Failure(into(x)), that is one invocation, Err(into(x))
\* returned, State and Shared as they were.
AsExplicitFailure(a) ==
  LET r == SubOp(a.st0, a.ev, a.sh0) IN
    r.tag = "Err"
      => /\ Len(a.tr) = 1
         /\ a.res = Err(into(r.err))
         /\ a.st1 = a.st0
         /\ a.sh1 = a.sh0

\* C12: when the sub-operation propagated with the helper yields Err(x) the
\* function's outcome is Failure(into(x)), nothing after that point runs,
\* and fire returns Err(into(x)) with State unchanged, as for an explicit
\* Failure; when it yields Ok the helper produces no Failure.
C12_ResidualIsFailure ==
  engine = "try"
    => /\ \A k \in 1..Len(trace) : Propagated(trace[k])
       /\ \A i \in 1..Len(log) :
            /\ AsExplicitFailure(log[i])
            /\ \A k \in 1..Len(log[i].tr) : Propagated(log[i].tr[k])

\* A call whose sub-operation failed with "parse", surfaced as "e2" from the
\* last State, and a call whose sub-operation succeeded.
C12_Witness ==
  /\ engine = "try"
  /\ \E i \in 1..Len(log) :
       /\ SubOp(log[i].st0, log[i].ev, log[i].sh0) = SubErr("parse")
       /\ log[i].res = Err("e2")
       /\ log[i].st0 = MaxState
       /\ log[i].st1 = MaxState
  /\ \E i \in 1..Len(log) :
       /\ SubOp(log[i].st0, log[i].ev, log[i].sh0).tag = "Ok"
       /\ log[i].res = Ok
       /\ log[i].st1 # log[i].st0

\* ---------------------------------------------------------------- C13
Poisoned == statePoison \/ sharedPoison

\* C13: a panic inside the transition function poisons both locks; from
\* then on State is never written again, and a fire call that comes to its
\* first lock acquisition (any call entered later, on either handle)
\* leaves it only by panicking, with no result returned: neither Ok nor
\* Err(E::Error).
C13_PoisonIsFatal ==
  [][Poisoned =>
       /\ statePoison /\ sharedPoison
       /\ state' = state
       /\ statePoison' /\ sharedPoison'
       /\ \A c \in Callers :
            /\ pc[c] = "lock_state" => pc'[c] \in {"lock_state", "panicked"}
            /\ pc'[c] = "panicked" => result'[c] = NoResult]_vars

\* t2 entered fire with nobody else inside and panicked: the locks had been
\* poisoned by t1, whose transition function panicked in its first
\* invocation.
C13_Witness ==
  /\ pc["t1"] = "panicked"
  /\ pc["t2"] = "panicked"
  /\ calls["t1"] = 0
  /\ seen["t1"] = MaxState
  /\ ~overlapped["t2"]
  /\ stateLock = NoCaller
  /\ result["t2"] = NoResult
  /\ state = MaxState
  /\ Poisoned

\* ---------------------------------------------------------------- C14
\* C14: from Idle with every line flag clear, the signals of the test
\* (1,high), (2,high), (1,low), (3,high), (2,low), (3,low) take the loop
\* to Entry on the first, leave it there for two, to Finalizing on the
\* fourth (holding for the second radar, released by the fifth) and back to
\* Idle on the sixth; the open sequence is issued by the first signal and
\* the close sequence by the sixth, and no relay is touched in between.
C14_PerfectConditions ==
  /\ progress = 1 => (lstate = Entry /\ Issued(relays) = "open")
  /\ progress \in {2, 3} => (lstate = Entry /\ relays = <<>>)
  /\ progress = 4 => (lstate = Finalizing(TRUE) /\ relays = <<>>)
  /\ progress = 5 => (lstate = Finalizing(FALSE) /\ relays = <<>>)
  /\ progress \in 1..5 => lastOp = "open"
  /\ progress = Len(Test)
       => (lstate = Idle /\ Issued(relays) = "close" /\ lastOp = "close"
           /\ lanes = NoLanes)

\* The test has run to its end.
C14_Witness ==
  /\ progress = Len(Test)
  /\ sig = Test[Len(Test)]
  /\ lstate = Idle
  /\ relays = <<<<2, TRUE>>, <<2, FALSE>>, <<2, TRUE>>, <<2, FALSE>>,
                <<2, TRUE>>, <<2, FALSE>>>>

\* ---------------------------------------------------------------- C15
\* C15: when line 3 goes low in Finalizing{hold: false} while the second
\* radar's line is still high, the loop goes to WaitRelease and issues no
\* close; otherwise it issues the close sequence and goes to Idle.
C15_WaitsForSecondRadar ==
  [][(lstate = Finalizing(FALSE) /\ sig' = <<3, FALSE>>)
       => IF lanes[2]
          THEN lstate' = WaitRelease /\ Issued(relays') # "close"
          ELSE lstate' = Idle /\ Issued(relays') = "close"]_vars

\* ---------------------------------------------------------------- C19
\* C19: under every sequence of signals on lines 0..6 the open sequence is
\* issued only by the step from Idle to Entry and the close sequence only
\* by a step back to Idle; they alternate, open first (an open follows
\* "none" or a close, a close follows an open, and the barrier is open
\* exactly while the loop is away from Idle); no other relay call is made;
\* and a signal that matches no arm leaves the state as it was.
C19_OpenCloseAlternate ==
  [][/\ Issued(relays') = "open"
          => (lstate = Idle /\ lstate' = Entry /\ lastOp # "open")
     /\ Issued(relays') = "close"
          => (lstate # Idle /\ lstate' = Idle /\ lastOp = "open")
     /\ Issued(relays') = "none" => relays' = <<>>
     /\ (lastOp = "open") <=> (lstate # Idle)
     /\ Arm(lstate, sig'[1], sig'[2]) = "ignore" => lstate' = lstate]_vars

\* A passage other than the test's has ended: the barrier was opened
\* and the close sequence has just been issued on the step back to Idle.
C19_Witness ==
  /\ lastOp = "close"
  /\ Issued(relays) = "close"
  /\ lstate = Idle
  /\ sig = <<3, FALSE>>
  /\ progress = 0

\* ---------------------------------------------------------------- C16
\* The call slid at least once and its last step failed.
SlidThenFailed(a) ==
  /\ Len(a.tr) >= 2
  /\ a.tr[Len(a.tr)].flow.kind = "Failure"

\* C16: when a step of a call returned Slide(s, e2) and a later step of the
\* same chain returned Failure(err), fire returns Err(err) and the State is
\* the one the last Slide before the failure committed: nothing is rolled
\* back.
C16_NoRollback ==
  \A i \in 1..Len(log) :
    SlidThenFailed(log[i])
      => LET n == Len(log[i].tr) IN
           /\ log[i].res = Err(log[i].tr[n].flow.err)
           /\ log[i].tr[n - 1].flow.kind = "Slide"
           /\ log[i].st1 = log[i].tr[n - 1].flow.st

\* A failed call that left a State other than the one it began in.
C16_Witness ==
  \E i \in 1..Len(log) :
    /\ SlidThenFailed(log[i])
    /\ log[i].res.tag = "Err"
    /\ log[i].st1 # log[i].st0

\* ---------------------------------------------------------------- C17
\* The caller is between the commit of a Slide and the acquisition that
\* begins the chained fire.
BetweenSlideAndDispatch(c) == pc[c] = "lock_state" /\ depth[c] > 0

\* C17: between the commit of s by a Slide(s, e2) step and the dispatch of
\* e2 the caller holds no lock; the committed s is in the Store only until
\* somebody else writes.
C17_SlideNotAtomic ==
  \A c \in Callers :
    BetweenSlideAndDispatch(c)
      => /\ stateLock # c
         /\ sharedLock # c
         /\ flow[c].kind = "Slide"
         /\ ev[c] = flow[c].ev

\* t1's chained event is being evaluated against a State other than the s
\* its Slide committed: t2 committed in between.
C17_Witness ==
  /\ pc["t1"] = "in_next"
  /\ depth["t1"] >= 1
  /\ flow["t1"].kind = "Slide"
  /\ seen["t1"] # flow["t1"].st
  /\ state = lastReq["t2"]

\* ---------------------------------------------------------------- C18
\* The steps of the runtime after the invocation, up to the return.
AfterInvocation(c) ==
  pc[c] \in {"drop_shared", "drop_state", "infer", "set_lock", "set_write",
             "set_drop", "done"}

\* C18: Shared changes only in the step in which the transition function
\* returns, made by it under the Shared lock; set_state and infer_result
\* leave Shared alone, so that from the invocation to the return Shared is
\* what the transition function left, whatever Flow it returned.
C18_OnlyNextWritesShared ==
  /\ [](AfterInvocation(Solo) => shared = inv.out)
  /\ [][shared' # shared
          => /\ pc[Solo] = "in_next"
             /\ pc'[Solo] = "drop_shared"
             /\ sharedLock = Solo
             /\ shared' = inv'.out]_vars

\* A call that failed at once and returned with the change its transition
\* function made to Shared still in place.
C18_Witness ==
  /\ pc[Solo] = "done"
  /\ flow[Solo].kind = "Failure"
  /\ depth[Solo] = 0
  /\ shared # start.sh
  /\ shared = inv.out
  /\ state = start.st

\* ---------------------------------------------------------------- C20
\* C20: in suspendable mode a task suspended inside the transition function
\* holds both locks, and meanwhile no other task is inside its transition
\* function or committing; and on a single carrier thread a fire that
\* starts during the suspension still completes: it does not panic, and
\* while a call is unfinished some task can take a step.
C20_SuspendedHoldsLocksOthersComplete ==
  /\ \A c \in Callers :
       pc[c] = "awaiting"
         => /\ stateLock = c /\ sharedLock = c
            /\ \A d \in Callers \ {c} :
                 ~Invoking(d) /\ pc[d] \notin {"set_write", "set_drop"}
  /\ \A c \in Callers : pc[c] # "panicked"
  /\ (\E c \in Callers : InFire(c))
       => \E c \in Callers : ENABLED StepAsync(c)

====
